---------------------------- MODULE Spec2Model ----------------------------
(***************************************************************************)
(* Dusk-to-dawn LED controller (src/src/main.cpp), built with              *)
(* ENABLE_BUTTON_OVERRIDE.  The main context runs loop() over and over;    *)
(* the button interrupt handleButtonPress() may run between any two steps  *)
(* of it.  time(nullptr) and millis() are read from the environment, and   *)
(* the SunSet library's results are inputs.  time_t values are seconds of  *)
(* local time since 1970-01-01 00:00 (the zone offset, constant over a     *)
(* day, is left out of both localtime and mktime).                         *)
(***************************************************************************)
EXTENDS Integers, Sequences, FiniteSets, TLC

VARIABLES
    led_override,        \* main.cpp:33  volatile bool led_override
    led_state,           \* main.cpp:34  volatile int led_state
    current_pwm_duty,    \* main.cpp:52  int current_pwm_duty
    sunrise_time,        \* main.cpp:50  time_t sunrise_time
    sunset_time,         \* main.cpp:49  time_t sunset_time
    last_interrupt_time, \* main.cpp:71  static in handleButtonPress
    time_initialized,    \* main.cpp:193 static in loop
    is_dark,             \* main.cpp:226 local of loop
    tnow,                \* main.cpp:115 local of isDark (0 outside a call)
    targetBrightness,    \* main.cpp:125 parameter of fadeToBrightness
    pc,                  \* position of the main context
    ret,                 \* the call site fadeToBrightness returns to
    pin_duty,            \* duty last given to analogWrite(LED_MOSFET_PIN, .)
    writes,              \* history: the analogWrite values of the current call
    fade_start,          \* history: current_pwm_duty when the call began
    last_accepted_time,  \* history: millis() of the last edge that toggled
    running,             \* history: loop() has passed the year gate once
    sunrise_minutes,     \* main.cpp:157 local of calcSunriseSunset (0 outside a tick)
    sunset_minutes,      \* main.cpp:158 local of calcSunriseSunset (0 outside a tick)
    ov_read,             \* history: led_override as read at main.cpp:179 in this iteration
    events,              \* history: what this iteration of loop() has done, in order
    prev_class           \* history: classification of the tick just before this iteration

vars == << led_override, led_state, current_pwm_duty, sunrise_time, sunset_time,
           last_interrupt_time, time_initialized, is_dark, tnow, targetBrightness,
           pc, ret, pin_duty, writes, fade_start, last_accepted_time, running,
           sunrise_minutes, sunset_minutes, ov_read, events, prev_class >>

hist == << sunrise_minutes, sunset_minutes, ov_read, events, prev_class >>

-----------------------------------------------------------------------------
(* Program constants *)

LED_PWM_DUTY == 192

DEBOUNCE_MS == 200

SYNC_YEAR == 2020

-----------------------------------------------------------------------------
(* Bounds of the model *)

\* fadeToBrightness alone: start and target range over 0..MaxFade
MaxFade == 5

\* isDark alone: the three instants range over 0..MaxInstant
MaxInstant == 4

\* handleButtonPress alone: edges arrive up to this millis() value
MaxMillis == 1000

\* gaps between consecutive button edges, in ms
Gaps == {50, 150, 199, 200, 201, 350}

\* millis() values of the button edges seen while loop() runs
EdgeTimes == {300, 450, 650}

\* values time(nullptr) reports: 5 s after boot (1970, not synchronised), and
\* on 2024-06-21 (day 19895) 05:30:59, 05:31:00, 12:00:00, 20:48:59, 20:49:00
Times == {5,
          19895 * 86400 + 19859, 19895 * 86400 + 19860,
          19895 * 86400 + 43200,
          19895 * 86400 + 74939, 19895 * 86400 + 74940}

\* results of sun.calcSunrise() / sun.calcSunset(), in hundredths of a minute
\* past local midnight: 331.42 and 1249.58 (05:31, 20:49)
SolarResults == { << 33142, 124958 >> }

\* NaN, as calcSunrise() / calcSunset() return it when the sun does not cross
\* the horizon that day
NaN == -(2 ^ 30)

\* degenerate results: -30.00 minutes with an ordinary sunset, and NaN
DegenerateResults == { << -3000, 124958 >>, << NaN, NaN >> }

None == -1

-----------------------------------------------------------------------------
(* Pure functions *)

\* C++ conversion of a quotient to int, and the % operator: both truncate
\* toward zero
TruncDiv(a, b) == IF a >= 0 THEN a \div b ELSE -((-a) \div b)

CRem(a, b) == a - b * TruncDiv(a, b)

IsLeap(y) == (y % 4 = 0 /\ y % 100 # 0) \/ y % 400 = 0

DaysIn(y) == IF IsLeap(y) THEN 366 ELSE 365

RECURSIVE YearFrom(_, _)
YearFrom(days, y) == IF days < DaysIn(y) THEN y ELSE YearFrom(days - DaysIn(y), y + 1)

\* localtime(&t)->tm_year + 1900
YearOf(t) == YearFrom(t \div 86400, 1970)

\* mktime of the broken-down time of t with tm_hour, tm_min replaced and
\* tm_sec = 0 (main.cpp:163-167); minutes is in hundredths of a minute
EventTime(t, minutes) ==
    (t \div 86400) * 86400
      + TruncDiv(minutes, 6000) * 3600
      + CRem(TruncDiv(minutes, 100), 60) * 60

\* non-finite, or outside [0, 1440) minutes
Degenerate(minutes) == minutes = NaN \/ minutes < 0 \/ minutes >= 144000

\* converting NaN to int is undefined: a build gives 0 ("zero": midnight) or
\* a saturated value, for which mktime fails with -1 ("saturated")
NaNConversions == {"zero", "saturated"}

\* what sunrise_time / sunset_time become under a build's conversion
EventTimeOf(t, minutes, conversion) ==
    IF minutes = NaN
      THEN (IF conversion = "zero" THEN EventTime(t, 0) ELSE -1)
      ELSE EventTime(t, minutes)

Class(dark) == IF dark THEN "dark" ELSE "light"

\* sunrise itself taken as dark
isDark_ExclusiveSunrise(now, sunrise, sunset) ==
    IF now > sunrise /\ now < sunset THEN FALSE ELSE TRUE

\* main.cpp:118 with tnow, sunrise_time, sunset_time as arguments
isDark(now, sunrise, sunset) ==
    IF now >= sunrise /\ now < sunset THEN FALSE ELSE TRUE

\* a shorter debounce window
DebouncePassed_HalfWindow(interrupt_time, last) ==
    2 * (interrupt_time - last) > DEBOUNCE_MS

\* main.cpp:73 (unsigned long difference; millis() does not wrap within the bound)
DebouncePassed(interrupt_time, last) == interrupt_time - last > DEBOUNCE_MS

\* the down branch also taken when already at the target
FadingDown_OrEqual(cur, target) == cur >= target

\* main.cpp:126, 133: the branch fadeToBrightness takes
FadingUp(cur, target) == cur < target

FadingDown(cur, target) == cur > target

\* loops that stop one short of the target
FadeUpContinues_Strict(cur, target) == cur < target

FadeDownContinues_Strict(cur, target) == cur > target

\* main.cpp:128, 135: the while conditions
FadeUpContinues(cur, target) == cur <= target

FadeDownContinues(cur, target) == cur >= target

\* a step of two
FadeUpNext_Two(cur) == cur + 2

\* main.cpp:131, 138: the step of each loop
FadeUpNext(cur) == cur + 1

FadeDownNext(cur) == cur - 1

\* the override turning the LEDs on when it is dark
OverrideTurnsOn_WhenDark(dark, state) == dark /\ state = 0

\* the override turning the LEDs off whatever led_state is
OverrideTurnsOff_IgnoresState(dark, state) == dark

\* main.cpp:181, 185: the override conditions
OverrideTurnsOn(dark, state) == ~dark /\ state = 0

OverrideTurnsOff(dark, state) == dark /\ state # 0

\* main.cpp:199
AwaitingTime(t) == YearOf(t) < SYNC_YEAR

-----------------------------------------------------------------------------
(* State after setup() *)

Init ==
    /\ led_override = FALSE
    /\ led_state = 0
    /\ current_pwm_duty = 0
    /\ sunrise_time = 0
    /\ sunset_time = 0
    /\ last_interrupt_time = 0
    /\ time_initialized = FALSE
    /\ is_dark = FALSE
    /\ tnow = 0
    /\ targetBrightness = 0
    /\ pc = "loop"
    /\ ret = "none"
    /\ pin_duty = 0
    /\ writes = << >>
    /\ fade_start = 0
    /\ last_accepted_time = None
    /\ running = FALSE
    /\ sunrise_minutes = 0
    /\ sunset_minutes = 0
    /\ ov_read = FALSE
    /\ events = << >>
    /\ prev_class = "none"

-----------------------------------------------------------------------------
(* handleButtonPress *)

\* a handler that also toggles led_state and drives the pin at once
handleButtonPress_DrivesOutput(interrupt_time) ==
    /\ IF DebouncePassed(interrupt_time, last_interrupt_time)
         THEN /\ led_override' = ~led_override
              /\ last_accepted_time' = interrupt_time
              /\ led_state' = 1 - led_state
              /\ pin_duty' = (IF led_state = 0 THEN LED_PWM_DUTY ELSE 0)
         ELSE UNCHANGED << led_override, last_accepted_time, led_state, pin_duty >>
    /\ last_interrupt_time' = interrupt_time
    /\ UNCHANGED << current_pwm_duty, sunrise_time, sunset_time,
                    time_initialized, is_dark, tnow, targetBrightness, pc, ret,
                    writes, fade_start, running >>
    /\ UNCHANGED hist

handleButtonPress(interrupt_time) ==
    /\ IF DebouncePassed(interrupt_time, last_interrupt_time)
         THEN /\ led_override' = ~led_override
              /\ last_accepted_time' = interrupt_time
         ELSE UNCHANGED << led_override, last_accepted_time >>
    /\ last_interrupt_time' = interrupt_time
    /\ UNCHANGED << led_state, current_pwm_duty, sunrise_time, sunset_time,
                    time_initialized, is_dark, tnow, targetBrightness, pc, ret,
                    pin_duty, writes, fade_start, running >>
    /\ UNCHANGED hist

\* a falling edge while loop() runs
ButtonEdge ==
    \E t \in EdgeTimes : t > last_interrupt_time /\ handleButtonPress(t)

-----------------------------------------------------------------------------
(* fadeToBrightness *)

\* entry: the if / else if of main.cpp:126, 133
FadeCall(target, site) ==
    /\ targetBrightness' = target
    /\ ret' = site
    /\ fade_start' = current_pwm_duty
    /\ writes' = << >>
    /\ pc' = IF FadingUp(current_pwm_duty, target) THEN "fade_up"
             ELSE IF FadingDown(current_pwm_duty, target) THEN "fade_down"
             ELSE "fade_end"

\* one iteration of the loop of main.cpp:128-132
FadeUpStep ==
    /\ pc = "fade_up"
    /\ FadeUpContinues(current_pwm_duty, targetBrightness)
    /\ pin_duty' = current_pwm_duty
    /\ writes' = Append(writes, current_pwm_duty)
    /\ current_pwm_duty' = FadeUpNext(current_pwm_duty)
    /\ UNCHANGED << led_override, led_state, sunrise_time, sunset_time,
                    last_interrupt_time, time_initialized, is_dark, tnow,
                    targetBrightness, pc, ret, fade_start, last_accepted_time,
                    running >>
    /\ UNCHANGED hist

FadeUpExit ==
    /\ pc = "fade_up"
    /\ ~FadeUpContinues(current_pwm_duty, targetBrightness)
    /\ pc' = "fade_end"
    /\ UNCHANGED << led_override, led_state, current_pwm_duty, sunrise_time,
                    sunset_time, last_interrupt_time, time_initialized, is_dark,
                    tnow, targetBrightness, ret, pin_duty, writes, fade_start,
                    last_accepted_time, running >>
    /\ UNCHANGED hist

\* one iteration of the loop of main.cpp:135-139
FadeDownStep ==
    /\ pc = "fade_down"
    /\ FadeDownContinues(current_pwm_duty, targetBrightness)
    /\ pin_duty' = current_pwm_duty
    /\ writes' = Append(writes, current_pwm_duty)
    /\ current_pwm_duty' = FadeDownNext(current_pwm_duty)
    /\ UNCHANGED << led_override, led_state, sunrise_time, sunset_time,
                    last_interrupt_time, time_initialized, is_dark, tnow,
                    targetBrightness, pc, ret, fade_start, last_accepted_time,
                    running >>
    /\ UNCHANGED hist

FadeDownExit ==
    /\ pc = "fade_down"
    /\ ~FadeDownContinues(current_pwm_duty, targetBrightness)
    /\ pc' = "fade_end"
    /\ UNCHANGED << led_override, led_state, current_pwm_duty, sunrise_time,
                    sunset_time, last_interrupt_time, time_initialized, is_dark,
                    tnow, targetBrightness, ret, pin_duty, writes, fade_start,
                    last_accepted_time, running >>
    /\ UNCHANGED hist

-----------------------------------------------------------------------------
(* loop *)

\* main.cpp:179-190: the override block, up to a call of fadeToBrightness or
\* to the end of the block.  Each isDark() reads time(nullptr) anew.
LoopOverride ==
    /\ pc = "loop"
    /\ ov_read' = led_override
    /\ IF led_override
         THEN \E t1 \in Times :
                LET dark1 == isDark(t1, sunrise_time, sunset_time) IN
                IF OverrideTurnsOn(dark1, led_state)
                  THEN /\ FadeCall(LED_PWM_DUTY, "override_on")
                       /\ events' = << Class(dark1), "fade" >>
                  ELSE \E t2 \in Times :
                         LET dark2 == isDark(t2, sunrise_time, sunset_time) IN
                         IF OverrideTurnsOff(dark2, led_state)
                           THEN /\ FadeCall(0, "override_off")
                                /\ events' = << Class(dark1), Class(dark2), "fade" >>
                           ELSE /\ pc' = "gate"
                                /\ events' = << Class(dark1), Class(dark2) >>
                                /\ UNCHANGED << targetBrightness, ret, fade_start,
                                                writes >>
         ELSE /\ pc' = "gate"
              /\ events' = << >>
              /\ UNCHANGED << targetBrightness, ret, fade_start, writes >>
    /\ UNCHANGED << sunrise_minutes, sunset_minutes, prev_class >>
    /\ UNCHANGED << led_override, led_state, current_pwm_duty, sunrise_time,
                    sunset_time, last_interrupt_time, time_initialized, is_dark,
                    tnow, pin_duty, last_accepted_time, running >>

\* main.cpp:184: back from fadeToBrightness(LED_PWM_DUTY, 20)
OverrideOnReturn ==
    /\ pc = "fade_end"
    /\ ret = "override_on"
    /\ led_state' = 1
    /\ pc' = "gate"
    /\ ret' = "none"
    /\ UNCHANGED << led_override, current_pwm_duty, sunrise_time, sunset_time,
                    last_interrupt_time, time_initialized, is_dark, tnow,
                    targetBrightness, pin_duty, writes, fade_start,
                    last_accepted_time, running >>
    /\ UNCHANGED hist

\* main.cpp:188: back from fadeToBrightness(0, 20)
OverrideOffReturn ==
    /\ pc = "fade_end"
    /\ ret = "override_off"
    /\ led_state' = 0
    /\ pc' = "gate"
    /\ ret' = "none"
    /\ UNCHANGED << led_override, current_pwm_duty, sunrise_time, sunset_time,
                    last_interrupt_time, time_initialized, is_dark, tnow,
                    targetBrightness, pin_duty, writes, fade_start,
                    last_accepted_time, running >>
    /\ UNCHANGED hist

\* main.cpp:194-203: the year gate fails; delay(1000) and return
GateWait ==
    /\ pc = "gate"
    /\ ~time_initialized
    /\ \E t \in Times : AwaitingTime(t)
    /\ pc' = "loop"
    /\ ov_read' = FALSE
    /\ events' = << >>
    /\ prev_class' = "none"
    /\ UNCHANGED << sunrise_minutes, sunset_minutes >>
    /\ UNCHANGED << led_override, led_state, current_pwm_duty, sunrise_time,
                    sunset_time, last_interrupt_time, time_initialized, is_dark,
                    tnow, targetBrightness, ret, pin_duty, writes, fade_start,
                    last_accepted_time, running >>

\* main.cpp:194-205: the year gate passes
GatePass ==
    /\ pc = "gate"
    /\ time_initialized \/ \E t \in Times : ~AwaitingTime(t)
    /\ pc' = "calc"
    /\ running' = TRUE
    /\ UNCHANGED << led_override, led_state, current_pwm_duty, sunrise_time,
                    sunset_time, last_interrupt_time, time_initialized, is_dark,
                    tnow, targetBrightness, ret, pin_duty, writes, fade_start,
                    last_accepted_time >>
    /\ UNCHANGED hist

\* main.cpp:148-174 called at main.cpp:207
calcSunriseSunset ==
    /\ pc = "calc"
    /\ \E t \in Times, s \in SolarResults \cup DegenerateResults,
          conversion \in NaNConversions :
         /\ sunrise_minutes' = s[1]
         /\ sunset_minutes' = s[2]
         /\ sunrise_time' = EventTimeOf(t, s[1], conversion)
         /\ sunset_time' = EventTimeOf(t, s[2], conversion)
    /\ pc' = "compare"
    /\ events' = Append(events, "calc")
    /\ UNCHANGED << ov_read, prev_class >>
    /\ UNCHANGED << led_override, led_state, current_pwm_duty,
                    last_interrupt_time, time_initialized, is_dark, tnow,
                    targetBrightness, ret, pin_duty, writes, fade_start,
                    last_accepted_time, running >>

\* main.cpp:226
Compare ==
    /\ pc = "compare"
    /\ \E t \in Times :
         /\ tnow' = t
         /\ is_dark' = isDark(t, sunrise_time, sunset_time)
         /\ events' = Append(events, Class(isDark(t, sunrise_time, sunset_time)))
    /\ pc' = "branch"
    /\ UNCHANGED << sunrise_minutes, sunset_minutes, ov_read, prev_class >>
    /\ UNCHANGED << led_override, led_state, current_pwm_duty, sunrise_time,
                    sunset_time, last_interrupt_time, time_initialized,
                    targetBrightness, ret, pin_duty, writes, fade_start,
                    last_accepted_time, running >>

\* main.cpp:227-233
Branch ==
    /\ pc = "branch"
    /\ FadeCall(IF is_dark THEN LED_PWM_DUTY ELSE 0, "tick")
    /\ tnow' = 0
    /\ events' = Append(events, "fade")
    /\ UNCHANGED << sunrise_minutes, sunset_minutes, ov_read, prev_class >>
    /\ UNCHANGED << led_override, led_state, current_pwm_duty, sunrise_time,
                    sunset_time, last_interrupt_time, time_initialized, is_dark,
                    pin_duty, last_accepted_time, running >>

\* main.cpp:235: back from the tick's fadeToBrightness
TickReturn ==
    /\ pc = "fade_end"
    /\ ret = "tick"
    /\ pc' = "delay"
    /\ ret' = "none"
    /\ UNCHANGED << led_override, led_state, current_pwm_duty, sunrise_time,
                    sunset_time, last_interrupt_time, time_initialized, is_dark,
                    tnow, targetBrightness, pin_duty, writes, fade_start,
                    last_accepted_time, running >>
    /\ UNCHANGED hist

\* main.cpp:235-236: delay(60000) over, loop() returns
TickDelay ==
    /\ pc = "delay"
    /\ pc' = "loop"
    /\ is_dark' = FALSE
    /\ sunrise_minutes' = 0
    /\ sunset_minutes' = 0
    /\ ov_read' = FALSE
    /\ events' = << >>
    /\ prev_class' = (IF ov_read THEN "none" ELSE Class(is_dark))
    /\ UNCHANGED << led_override, led_state, current_pwm_duty, sunrise_time,
                    sunset_time, last_interrupt_time, time_initialized, tnow,
                    targetBrightness, ret, pin_duty, writes, fade_start,
                    last_accepted_time, running >>

Next ==
    \/ ButtonEdge
    \/ LoopOverride
    \/ OverrideOnReturn
    \/ OverrideOffReturn
    \/ GateWait
    \/ GatePass
    \/ calcSunriseSunset
    \/ Compare
    \/ Branch
    \/ FadeUpStep
    \/ FadeUpExit
    \/ FadeDownStep
    \/ FadeDownExit
    \/ TickReturn
    \/ TickDelay

Spec == Init /\ [][Next]_vars

\* the steps of the main context: loop() and what it calls.  The processor
\* always runs it, whatever the interrupt does.
LoopStep ==
    \/ LoopOverride
    \/ OverrideOnReturn
    \/ OverrideOffReturn
    \/ GateWait
    \/ GatePass
    \/ calcSunriseSunset
    \/ Compare
    \/ Branch
    \/ FadeUpStep
    \/ FadeUpExit
    \/ FadeDownStep
    \/ FadeDownExit
    \/ TickReturn
    \/ TickDelay

LiveSpec == Init /\ [][Next]_vars /\ WF_vars(LoopStep)

-----------------------------------------------------------------------------
(* fadeToBrightness alone: every start and target of a small range, and the *)
(* values loop() calls it with                                              *)

FadeStarts == (-1 .. MaxFade) \cup {LED_PWM_DUTY - 1, LED_PWM_DUTY, LED_PWM_DUTY + 1}

FadeTargets == (0 .. MaxFade) \cup {LED_PWM_DUTY}

InitFade ==
    /\ led_override = FALSE
    /\ led_state = 0
    /\ current_pwm_duty \in FadeStarts
    /\ sunrise_time = 0
    /\ sunset_time = 0
    /\ last_interrupt_time = 0
    /\ time_initialized = FALSE
    /\ is_dark = FALSE
    /\ tnow = 0
    /\ targetBrightness = 0
    /\ pc = "fade_call"
    /\ ret = "none"
    /\ pin_duty = 0
    /\ writes = << >>
    /\ fade_start = 0
    /\ last_accepted_time = None
    /\ running = FALSE
    /\ sunrise_minutes = 0
    /\ sunset_minutes = 0
    /\ ov_read = FALSE
    /\ events = << >>
    /\ prev_class = "none"

FadeInvoke ==
    /\ pc = "fade_call"
    /\ \E target \in FadeTargets : FadeCall(target, "caller")
    /\ UNCHANGED << led_override, led_state, current_pwm_duty, sunrise_time,
                    sunset_time, last_interrupt_time, time_initialized, is_dark,
                    tnow, pin_duty, last_accepted_time, running >>
    /\ UNCHANGED hist

FadeReturn ==
    /\ pc = "fade_end"
    /\ ret = "caller"
    /\ pc' = "fade_done"
    /\ UNCHANGED << led_override, led_state, current_pwm_duty, sunrise_time,
                    sunset_time, last_interrupt_time, time_initialized, is_dark,
                    tnow, targetBrightness, ret, pin_duty, writes, fade_start,
                    last_accepted_time, running >>
    /\ UNCHANGED hist

NextFade ==
    \/ FadeInvoke
    \/ FadeUpStep
    \/ FadeUpExit
    \/ FadeDownStep
    \/ FadeDownExit
    \/ FadeReturn

FadeSpec == InitFade /\ [][NextFade]_vars

-----------------------------------------------------------------------------
(* isDark alone: every combination of the three instants of a small range   *)

Instants == 0 .. MaxInstant

InitDark ==
    /\ led_override = FALSE
    /\ led_state = 0
    /\ current_pwm_duty = 0
    /\ sunrise_time \in Instants
    /\ sunset_time \in Instants
    /\ last_interrupt_time = 0
    /\ time_initialized = FALSE
    /\ is_dark = FALSE
    /\ tnow = 0
    /\ targetBrightness = 0
    /\ pc = "dark_call"
    /\ ret = "none"
    /\ pin_duty = 0
    /\ writes = << >>
    /\ fade_start = 0
    /\ last_accepted_time = None
    /\ running = FALSE
    /\ sunrise_minutes = 0
    /\ sunset_minutes = 0
    /\ ov_read = FALSE
    /\ events = << >>
    /\ prev_class = "none"

DarkEval ==
    /\ pc = "dark_call"
    /\ \E t \in Instants :
         /\ tnow' = t
         /\ is_dark' = isDark(t, sunrise_time, sunset_time)
    /\ pc' = "dark_done"
    /\ UNCHANGED << led_override, led_state, current_pwm_duty, sunrise_time,
                    sunset_time, last_interrupt_time, time_initialized,
                    targetBrightness, ret, pin_duty, writes, fade_start,
                    last_accepted_time, running >>
    /\ UNCHANGED hist

NextDark == DarkEval

DarkSpec == InitDark /\ [][NextDark]_vars

-----------------------------------------------------------------------------
(* handleButtonPress alone: edges at every combination of the gaps          *)

ButtonEdgeAfterGap ==
    \E gap \in Gaps :
        /\ last_interrupt_time + gap <= MaxMillis
        /\ handleButtonPress(last_interrupt_time + gap)

NextButton == ButtonEdgeAfterGap

ButtonSpec == Init /\ [][NextButton]_vars

-----------------------------------------------------------------------------
(* Properties *)

Abs(x) == IF x < 0 THEN -x ELSE x

InRange(d) == d >= 0 /\ d <= LED_PWM_DUTY

Values(seq) == { seq[i] : i \in DOMAIN seq }

\* C1: in every reachable state the stored current_pwm_duty and every duty
\* given to analogWrite lie within [0, LED_PWM_DUTY].
C1_DutyInRange ==
    /\ InRange(current_pwm_duty)
    /\ InRange(pin_duty)
    /\ \A i \in DOMAIN writes : InRange(writes[i])

\* C2: from an in-range start value, a fadeToBrightness(B) that has returned
\* has left current_pwm_duty equal to B.
C2_FadeEndsAtTarget ==
    (pc = "fade_done" /\ InRange(fade_start)) => current_pwm_duty = targetBrightness

\* C3: when a tick has completed (loop() is in its delay(60000)), the duty last
\* written to the pin is LED_PWM_DUTY if the tick classified dark and 0 if it
\* classified light, with or without override.
C3_TickEndsAtSunTarget ==
    pc = "delay" => pin_duty = (IF is_dark THEN LED_PWM_DUTY ELSE 0)

C3_Witness ==
    /\ pc = "delay"
    /\ ~is_dark
    /\ led_override
    /\ led_state = 1
    /\ pin_duty = 0
    /\ Len(writes) > LED_PWM_DUTY

\* C4: the values one fadeToBrightness call from A to B (A # B) has written are
\* strictly increasing if A < B and strictly decreasing if A > B, and are
\* exactly the integers between A and B inclusive, each once.
C4_FadeWritesEveryValueOnce ==
    (pc = "fade_end" /\ fade_start # targetBrightness) =>
        LET lo == IF fade_start < targetBrightness THEN fade_start ELSE targetBrightness
            hi == IF fade_start < targetBrightness THEN targetBrightness ELSE fade_start
        IN  /\ Values(writes) = lo .. hi
            /\ Len(writes) = Cardinality(lo .. hi)
            /\ \A i \in 1 .. (Len(writes) - 1) :
                 IF fade_start < targetBrightness
                   THEN writes[i] < writes[i + 1]
                   ELSE writes[i] > writes[i + 1]

C4_Witness ==
    /\ pc = "fade_end"
    /\ fade_start = LED_PWM_DUTY + 1
    /\ targetBrightness = 0
    /\ Len(writes) = LED_PWM_DUTY + 2

\* C5 as stated: a fade from A to B issues exactly |B - A| writes, the start
\* value not being rewritten; from 0 to 192 they are 1, 2, ..., 192.
C5_WritesExcludeStart ==
    pc = "fade_end" =>
        /\ Len(writes) = Abs(targetBrightness - fade_start)
        /\ (fade_start = 0 /\ targetBrightness = LED_PWM_DUTY) =>
              writes = [i \in 1 .. LED_PWM_DUTY |-> i]

\* C5 as amended: a fade from A to B with A # B issues exactly |B - A| + 1
\* writes, the first of them the start value; from 0 to 192 they are the 193
\* values 0, 1, ..., 192 in that order.
C5_WritesIncludeStart ==
    (pc = "fade_end" /\ fade_start # targetBrightness) =>
        /\ Len(writes) = Abs(targetBrightness - fade_start) + 1
        /\ writes[1] = fade_start
        /\ (fade_start = 0 /\ targetBrightness = LED_PWM_DUTY) =>
              writes = [i \in 1 .. (LED_PWM_DUTY + 1) |-> i - 1]

C5_Witness ==
    /\ pc = "fade_end"
    /\ fade_start = 0
    /\ targetBrightness = LED_PWM_DUTY
    /\ Len(writes) = LED_PWM_DUTY + 1

\* C6: a fadeToBrightness called with current_pwm_duty already at the target
\* writes nothing and leaves current_pwm_duty as it was.
C6_FadeAtTargetIsNoOp ==
    (pc = "fade_end" /\ fade_start = targetBrightness) =>
        /\ writes = << >>
        /\ current_pwm_duty = fade_start

C6_Witness ==
    /\ pc = "fade_end"
    /\ fade_start = targetBrightness
    /\ fade_start = MaxFade
    /\ current_pwm_duty = MaxFade

\* a button edge is the step that moves last_interrupt_time
EdgeStep == last_interrupt_time' # last_interrupt_time

\* C7: every edge 200 ms or more after the previously accepted edge toggles
\* led_override, whatever rejected edges came in between.
C7_EdgeAfterWindowAccepted ==
    [][ ( /\ EdgeStep
          /\ last_accepted_time # None
          /\ last_interrupt_time' - last_accepted_time >= DEBOUNCE_MS )
        => led_override' = ~led_override ]_vars

\* C8: an edge less than 200 ms after the previously accepted edge changes
\* neither led_override nor led_state and writes nothing to the pin.
C8_EdgeInWindowIgnored ==
    [][ ( /\ EdgeStep
          /\ last_accepted_time # None
          /\ last_interrupt_time' - last_accepted_time < DEBOUNCE_MS )
        => /\ led_override' = led_override
           /\ led_state' = led_state
           /\ pin_duty' = pin_duty
           /\ writes' = writes
           /\ current_pwm_duty' = current_pwm_duty
           /\ last_accepted_time' = last_accepted_time ]_vars

C8_Witness ==
    /\ last_accepted_time # None
    /\ last_interrupt_time > last_accepted_time
    /\ last_interrupt_time - last_accepted_time < DEBOUNCE_MS
    /\ pc \in {"fade_up", "fade_down"}

\* C9: isDark is false iff sunrise_time <= now < sunset_time; now = sunset and
\* now = sunrise - 1 are dark, and, when sunrise is before sunset,
\* now = sunrise and now = sunset - 1 are daylight.
C9_HalfOpenInterval ==
    pc \in {"dark_done", "branch"} =>
        /\ (is_dark = FALSE) <=> (sunrise_time <= tnow /\ tnow < sunset_time)
        /\ tnow = sunset_time => is_dark
        /\ tnow = sunrise_time - 1 => is_dark
        /\ (sunrise_time < sunset_time /\ tnow = sunrise_time) => ~is_dark
        /\ (sunrise_time < sunset_time /\ tnow = sunset_time - 1) => ~is_dark

C9_Witness ==
    /\ pc = "dark_done"
    /\ sunrise_time < sunset_time - 1
    /\ tnow = sunrise_time
    /\ ~is_dark

\* C10: until loop() has passed the year gate for the first time, sunrise and
\* sunset have not been computed, fadeToBrightness has not been called and
\* nothing has been written to the pin since setup().
C10_IdleWhileAwaitingTime ==
    ~running =>
        /\ pc \in {"loop", "gate"}
        /\ sunrise_time = 0
        /\ sunset_time = 0
        /\ writes = << >>
        /\ pin_duty = 0
        /\ current_pwm_duty = 0

C10_Witness ==
    /\ ~running
    /\ pc = "gate"
    /\ led_override
    /\ last_interrupt_time > last_accepted_time

\* C11: once an iteration of loop() has passed the year gate, no later
\* iteration takes the waiting branch (delay(1000) and return) again.
C11_RunningIsTerminal ==
    [][ running => ~(pc = "gate" /\ pc' = "loop") ]_vars

\* C20: between fades current_pwm_duty is within [-1, LED_PWM_DUTY + 1], and
\* a fade that has written at least once has left it one past its target:
\* target + 1 after fading up, target - 1 after fading down.
C20_StoredDutyOneOffTarget ==
    /\ current_pwm_duty >= -1
    /\ current_pwm_duty <= LED_PWM_DUTY + 1
    /\ (pc = "fade_end" /\ writes # << >>) =>
          current_pwm_duty =
              (IF fade_start < targetBrightness THEN targetBrightness + 1
                                                ELSE targetBrightness - 1)

C20_Witness ==
    /\ pc = "fade_end"
    /\ ret = "tick"
    /\ writes # << >>
    /\ targetBrightness = 0
    /\ current_pwm_duty = -1

\* C12: in a tick whose sunrise or sunset result is degenerate, the
\* classification is a fixed fallback, the same at every time of a synchronised
\* clock (the degenerate value is not compared with it as an ordinary instant), and
\* the duty commanded stays within [0, LED_PWM_DUTY].
C12_DegenerateFallsBack ==
    (Degenerate(sunrise_minutes) \/ Degenerate(sunset_minutes)) =>
        /\ (pc = "branch" /\ ~AwaitingTime(tnow)) =>
              \A t \in Times :
                  ~AwaitingTime(t) => isDark(t, sunrise_time, sunset_time) = is_dark
        /\ (pc \in {"fade_up", "fade_down", "fade_end"} /\ ret = "tick") =>
              InRange(targetBrightness)

\* C13: either the year gate fails again and again (the time source does not
\* keep reporting a year >= 2020) or ticks complete again and again in Running;
\* every fade ends; and as long as the gate has never passed the loop is in
\* AwaitingTime with the output at 0.
C13_TicksForever ==
    /\ ([]<><<GateWait>>_vars) \/ ([]<>(running /\ pc = "delay"))
    /\ (pc \in {"fade_up", "fade_down"}) ~> (pc = "fade_end")
    /\ [](~running => (pc \in {"loop", "gate"} /\ pin_duty = 0))

C13_Witness ==
    /\ running
    /\ pc = "delay"
    /\ prev_class = "dark"
    /\ is_dark
    /\ writes # << >>

Classified(e) == e \in {"dark", "light"}

\* C14: in every iteration of loop(), calcSunriseSunset comes before every
\* isDark evaluation and every fade, and every isDark evaluation comes before
\* every fade, also with override active.
C14_CalcThenClassifyThenFade ==
    \A i, j \in DOMAIN events :
        i < j =>
            /\ ~(events[j] = "calc" /\ (Classified(events[i]) \/ events[i] = "fade"))
            /\ ~(Classified(events[j]) /\ events[i] = "fade")

\* C15 as stated: button edges never change the sequence of duty writes.  A
\* run without edges never fades in the override block, so no run writes
\* anything in a fade called from it.
C15_OverrideBlockNeverWrites ==
    ret \in {"override_on", "override_off"} => writes = << >>

\* C15 as amended: the override block does write (it fades to LED_PWM_DUTY or
\* to 0 when the flag was read active), but whatever it did, the pin holds the
\* sun-derived target when the tick of the same iteration has completed.
C15_OverrideEffectIsTransient ==
    /\ (pc = "fade_end" /\ ret = "override_on") =>
          (ov_read /\ writes # << >> /\ pin_duty = LED_PWM_DUTY)
    /\ (pc = "fade_end" /\ ret = "override_off") =>
          (ov_read /\ writes # << >> /\ pin_duty = 0)
    /\ (pc = "delay" /\ ov_read) =>
          pin_duty = (IF is_dark THEN LED_PWM_DUTY ELSE 0)

C15_Witness ==
    /\ pc = "delay"
    /\ ov_read
    /\ events = << "light", "fade", "calc", "light", "fade" >>
    /\ pin_duty = 0
    /\ led_state = 1

\* C16: a button edge, accepted or not, writes nothing to the pin and leaves
\* led_state, current_pwm_duty and the position of the main context as they
\* were.
C16_HandlerOnlyTogglesFlag ==
    [][ EdgeStep =>
          /\ pin_duty' = pin_duty
          /\ writes' = writes
          /\ led_state' = led_state
          /\ current_pwm_duty' = current_pwm_duty
          /\ pc' = pc ]_vars

C16_Witness ==
    /\ last_accepted_time = 300
    /\ last_interrupt_time = 450
    /\ led_override
    /\ led_state = 1
    /\ pin_duty = LED_PWM_DUTY

\* the step of the main context that runs the override block
OverrideBlockStep == pc = "loop" /\ pc' # "loop"

Fading(p) == p \in {"fade_up", "fade_down", "fade_end"}

\* C17: with the flag active the override block fades to LED_PWM_DUTY when it
\* is light and led_state is off, fades to 0 when it is dark and led_state is
\* on, and otherwise writes nothing; the fades end with led_state on and off;
\* with the flag inactive the block writes nothing and keeps led_state.
C17_OverrideBlock ==
    [][ /\ (OverrideBlockStep /\ ~led_override) =>
              /\ pc' = "gate"
              /\ events' = << >>
              /\ UNCHANGED << led_state, pin_duty, writes, current_pwm_duty >>
        /\ (OverrideBlockStep /\ led_override) =>
              IF events'[1] = "light" /\ led_state = 0
                THEN /\ Fading(pc')
                     /\ ret' = "override_on"
                     /\ targetBrightness' = LED_PWM_DUTY
                ELSE IF events'[2] = "dark" /\ led_state # 0
                  THEN /\ Fading(pc')
                       /\ ret' = "override_off"
                       /\ targetBrightness' = 0
                  ELSE /\ pc' = "gate"
                       /\ UNCHANGED << led_state, pin_duty, writes,
                                       current_pwm_duty >>
        /\ (pc = "fade_end" /\ pc' = "gate" /\ ret = "override_on") =>
              (led_state' = 1 /\ pin_duty = LED_PWM_DUTY)
        /\ (pc = "fade_end" /\ pc' = "gate" /\ ret = "override_off") =>
              (led_state' = 0 /\ pin_duty = 0) ]_vars

C17_Witness ==
    /\ pc = "gate"
    /\ ov_read
    /\ Len(events) = 3
    /\ events[2] = "dark"
    /\ events[3] = "fade"
    /\ led_state = 0
    /\ pin_duty = 0

\* C18: an edge during a fade changes nothing of the main context; the fade
\* writes start, start +- 1, ..., target as it does without the edge; and a
\* fade of the override block begins only in the step at the start of loop().
C18_EdgeDuringFade ==
    /\ [][ (EdgeStep /\ Fading(pc)) =>
              UNCHANGED << current_pwm_duty, targetBrightness, fade_start, writes,
                           pin_duty, pc, ret, led_state, ov_read, events >> ]_vars
    /\ [][ (ret' \in {"override_on", "override_off"} /\ ret' # ret) =>
              (pc = "loop" /\ led_override) ]_vars
    /\ [](pc = "fade_end" =>
              /\ writes = [i \in 1 .. Len(writes) |->
                              IF fade_start < targetBrightness
                                THEN fade_start + (i - 1)
                                ELSE fade_start - (i - 1)]
              /\ (writes # << >> => writes[Len(writes)] = targetBrightness))

C18_Witness ==
    /\ pc = "fade_end"
    /\ ret = "override_on"
    /\ ov_read
    /\ ~led_override
    /\ Len(writes) > LED_PWM_DUTY

\* C19: with override inactive, a tick that classifies as the tick before it
\* did writes nothing.
C19_SteadyStateWritesNothing ==
    (ret = "tick" /\ ~ov_read /\ prev_class = Class(is_dark)) => writes = << >>

=============================================================================
